---- MODULE Spec2Model ----
(***************************************************************************)
(* Model of the byte-bounded LFUDA / GDSF cache engine (package            *)
(* simplelfuda): the key index `items`, the ordered list `freqs` of        *)
(* frequency nodes (listEntry), the byte load `currSize`, the cache `age`  *)
(* and the eviction policy.                                                *)
(*                                                                         *)
(* Number representation.  size, currSize and hits are float64 in the      *)
(* source but only ever hold integers; they are integers here.  age and    *)
(* priorityKey can hold fractions under GDSF (hits / size); they are       *)
(* stored as integer multiples of 1/Unit, where Unit is a common multiple  *)
(* of every admissible size, so hits / size is exact.  For the sizes 1 and  *)
(* 2 the float64 quotient is exact too; the size 3, which only the cache   *)
(* of capacity 3 admits, is divided exactly here and rounded in float64.   *)
(* A division by a zero size gives +Inf in float64; Inf stands for it and  *)
(* fadd saturates on it.                                                   *)
(***************************************************************************)
EXTENDS Integers, Sequences, FiniteSets, TLC

\* ---------------------------------------------------------------- bounds
KeySet == {"k1", "k2", "k3"}
ValueSet == {"", "a", "cc", "ddd"}
Capacities == {2}
\* the capacity of the cache that holds items of different positive sizes
MixedCapacities == {3}
\* capacities a caller can pass although they are not positive
InvalidCapacities == {-1, 0}
\* the capacity of the cache in which every key can hold a value of size 0
SmallCapacities == {1}
MaxPriority == 2
\* the keys under which the client stores values of size 0
ZeroKeys == {"k3"}
\* the keys on which a failing notifier panics
PanicKeys == {"k2"}
\* the keys on which a re-entrant notifier calls a method of the Cache
ReenterKeys == {"k2"}
\* the goroutines that share a Cache, and what they pass to it
Goroutines == {"g1", "g2"}
SharedKeys == {"k1", "k2"}
SharedValues == {"a", "cc"}
\* the value that the goroutines store when their scheduling is followed,
\* and the key they pass to the methods other than Set
FairValue == "cc"
FairKey == "k1"

Nil == "<nil>"
Inf == 1000000

\* size of a value in bytes: len([]byte(fmt.Sprintf("%v", value))); the %v
\* rendering of a string is the string itself
numBytes(value) == Len(value)

AllCapacities ==
    Capacities \cup MixedCapacities \cup InvalidCapacities \cup SmallCapacities

MaxCapacity == CHOOSE c \in AllCapacities : \A d \in AllCapacities : d <= c

AdmissibleSizes == {numBytes(v) : v \in ValueSet} \cap (1..MaxCapacity)

Unit ==
    CHOOSE u \in 1..(MaxCapacity * MaxCapacity) :
        /\ \A s \in AdmissibleSizes : u % s = 0
        /\ \A w \in 1..(u - 1) : \E s \in AdmissibleSizes : w % s # 0

\* float64 addition on the fixed-point representation
fadd(a, b) == IF a = Inf \/ b = Inf THEN Inf ELSE a + b

\* ---------------------------------------------------------------- state
VARIABLES
    size,       \* LFUDA.size: capacity of the cache in bytes
    currSize,   \* LFUDA.currSize
    items,      \* LFUDA.items: key -> item
    freqs,      \* LFUDA.freqs: list of listEntry, front first
    onEvict,    \* TRUE iff an EvictCallback is installed
    panics,     \* the keys on which the installed EvictCallback panics
    reenters,   \* the keys on which it calls a method of the Cache
    lock,       \* Cache.lock: the writer and the readers that hold it
    calls,      \* per goroutine, the Cache method it is in and how far
    age,        \* LFUDA.age (fixed point)
    policy,     \* "LFUDA" or "GDSF"
    last        \* the last operation: its arguments, results and trace

vars ==
    <<size, currSize, items, freqs, onEvict, panics, reenters, age, policy,
      last, lock, calls>>
engine ==
    <<size, currSize, items, freqs, onEvict, panics, reenters, age, policy>>
wrapper == <<lock, calls>>

\* Ki = Ci * Fi + L where C is set to 1
\* (mutant) plain LFU: the cache age is left out of the priority
lfudaPolicyNoAge(element, cacheAge) == element.hits * Unit

\* (mutant) the priority is computed from the hit count before the hit
lfudaPolicyHitsBefore(element, cacheAge) ==
    fadd((element.hits - 1) * Unit, cacheAge)

lfudaPolicy(element, cacheAge) == fadd(element.hits * Unit, cacheAge)

\* Ki = Fi * Ci / Si + L where C is set to 1
\* (mutant) the size of the item is left out of the priority
gdsfPolicyNoSize(element, cacheAge) == fadd(element.hits * Unit, cacheAge)

gdsfPolicy(element, cacheAge) ==
    fadd(IF element.size = 0 THEN Inf
         ELSE (element.hits * Unit) \div element.size, cacheAge)

applyPolicy(l, element) ==
    IF l.policy = "GDSF" THEN gdsfPolicy(element, l.age)
    ELSE lfudaPolicy(element, l.age)

\* the engine as one record, with the trace of the running operation
This ==
    [size |-> size, currSize |-> currSize, items |-> items, freqs |-> freqs,
     onEvict |-> onEvict, panics |-> panics, reenters |-> reenters,
     age |-> age, policy |-> policy,
     fired |-> <<>>, evictions |-> <<>>, panicked |-> FALSE,
     blocked |-> FALSE]

\* ------------------------------------------------------- list helpers
\* position of the list element `place` in the list, 0 if it is not in it
NodeIndex(fr, place) ==
    IF \E i \in 1..Len(fr) : fr[i].id = place
    THEN CHOOSE i \in 1..Len(fr) : fr[i].id = place
    ELSE 0

\* a fresh list element
NewNodeId(fr) ==
    CHOOSE n \in 1..(Len(fr) + 1) :
        /\ \A i \in 1..Len(fr) : fr[i].id # n
        /\ \A m \in 1..(n - 1) : \E i \in 1..Len(fr) : fr[i].id = m

\* list.InsertAfter(li, cursor) / list.PushFront(li): li becomes element c+1
InsertAfter(fr, c, li) ==
    SubSeq(fr, 1, c) \o <<li>> \o SubSeq(fr, c + 1, Len(fr))

\* list.Remove(place)
ListRemove(fr, i) == SubSeq(fr, 1, i - 1) \o SubSeq(fr, i + 1, Len(fr))

Restrict(f, S) == [x \in S |-> f[x]]

MinOf(S) == CHOOSE m \in S : \A n \in S : m <= n

LivePriorities(l) == {l.items[k].priorityKey : k \in DOMAIN l.items}

\* ------------------------------------------------------------ remEntry
\* (mutant) the key stays a member of the node it leaves
remEntryKeepsMember(l, place, k) == l

remEntry(l, place, k) ==
    LET i == NodeIndex(l.freqs, place) IN
    IF i = 0 THEN l
    ELSE LET entries == l.freqs[i].entries \ {k} IN
         IF entries = {}
         THEN [l EXCEPT !.freqs = ListRemove(@, i)]
         ELSE [l EXCEPT !.freqs[i].entries = entries]

\* ----------------------------------------------------------- increment
RECURSIVE search(_, _, _)
\* the placement loop: the final cursor; nextPlace is the element after it
search(fr, cursor, priorityKey) ==
    LET nextPlace == cursor + 1 IN
    IF nextPlace > Len(fr) \/ fr[nextPlace].priorityKey >= priorityKey
    THEN cursor
    ELSE search(fr, nextPlace, priorityKey)

\* (mutant) a new node is keyed by the hit count of its first member
incrementKeyedByHits(l, k) ==
    LET e0 == l.items[k]
        oldNode == e0.freqNode
        start == IF oldNode = 0 THEN 0 ELSE NodeIndex(l.freqs, oldNode)
        e1 == [e0 EXCEPT !.hits = @ + 1]
        e2 == [e1 EXCEPT !.priorityKey = applyPolicy(l, e1)]
        cursor == search(l.freqs, start, e2.priorityKey)
        nextPlace == cursor + 1
        create == \/ nextPlace > Len(l.freqs)
                  \/ l.freqs[nextPlace].priorityKey > e2.priorityKey
        li == [id |-> NewNodeId(l.freqs), entries |-> {},
               priorityKey |-> e2.hits * Unit]
        fr1 == IF create THEN InsertAfter(l.freqs, cursor, li) ELSE l.freqs
        fr2 == [fr1 EXCEPT ![nextPlace].entries = @ \cup {k}]
        e3 == [e2 EXCEPT !.freqNode = fr2[nextPlace].id]
        l1 == [l EXCEPT !.items[k] = e3, !.freqs = fr2]
    IN  IF oldNode # 0 THEN remEntry(l1, oldNode, k) ELSE l1

increment(l, k) ==
    LET e0 == l.items[k]
        oldNode == e0.freqNode
        start == IF oldNode = 0 THEN 0 ELSE NodeIndex(l.freqs, oldNode)
        e1 == [e0 EXCEPT !.hits = @ + 1]
        e2 == [e1 EXCEPT !.priorityKey = applyPolicy(l, e1)]
        cursor == search(l.freqs, start, e2.priorityKey)
        nextPlace == cursor + 1
        create == \/ nextPlace > Len(l.freqs)
                  \/ l.freqs[nextPlace].priorityKey > e2.priorityKey
        li == [id |-> NewNodeId(l.freqs), entries |-> {},
               priorityKey |-> e2.priorityKey]
        fr1 == IF create THEN InsertAfter(l.freqs, cursor, li) ELSE l.freqs
        fr2 == [fr1 EXCEPT ![nextPlace].entries = @ \cup {k}]
        e3 == [e2 EXCEPT !.freqNode = fr2[nextPlace].id]
        l1 == [l EXCEPT !.items[k] = e3, !.freqs = fr2]
    IN  IF oldNode # 0 THEN remEntry(l1, oldNode, k) ELSE l1

\* -------------------------------------------------------------- Remove
\* (mutant) nobody is told
notifyNothing(l, k, value) == l

\* the notifier did not return to the operation that called it
Stopped(l) == l.panicked \/ l.blocked

\* the notifier runs first, on the still linked item; a panic in it unwinds
\* the operation that called it (nothing recovers, nothing is deferred), and
\* a call it makes runs before the operation goes on
notify(l, k, value) ==
    IF l.onEvict
    THEN [l EXCEPT !.fired = Append(@,
            [key |-> k, value |-> value,
             indexed |-> k \in DOMAIN l.items,
             bucketed |-> \E i \in 1..Len(l.freqs) : k \in l.freqs[i].entries]),
                   !.panicked = k \in l.panics,
                   !.blocked = k \in l.reenters]
    ELSE l

\* (mutant) the byte load is not reduced
removeKeepsBytes(l, key) ==
    IF key \in DOMAIN l.items
    THEN LET item == l.items[key]
             l1 == notify(l, item.key, item.value)
             l2 == [l1 EXCEPT !.items = Restrict(@, DOMAIN @ \ {key})]
         IN  [l |-> remEntry(l2, item.freqNode, item.key), present |-> TRUE]
    ELSE [l |-> l, present |-> FALSE]

\* (mutant) every removal moves the age to the removed item's priority key
removeSetsAge(l, key) ==
    IF key \in DOMAIN l.items
    THEN LET item == l.items[key]
             l1 == notify(l, item.key, item.value)
             l2 == [l1 EXCEPT !.items = Restrict(@, DOMAIN @ \ {key})]
             l3 == remEntry(l2, item.freqNode, item.key)
         IN  [l |-> [l3 EXCEPT !.currSize = @ - item.size,
                               !.age = item.priorityKey],
              present |-> TRUE]
    ELSE [l |-> l, present |-> FALSE]

\* (mutant) the whole node of the item is unlinked, other members included
removeUnlinksNode(l, key) ==
    IF key \in DOMAIN l.items
    THEN LET item == l.items[key]
             l1 == notify(l, item.key, item.value)
             l2 == [l1 EXCEPT !.items = Restrict(@, DOMAIN @ \ {key})]
             l3 == [l2 EXCEPT !.freqs =
                        ListRemove(@, NodeIndex(@, item.freqNode))]
         IN  [l |-> [l3 EXCEPT !.currSize = @ - item.size], present |-> TRUE]
    ELSE [l |-> l, present |-> FALSE]

remove(l, key) ==
    IF key \in DOMAIN l.items
    THEN LET item == l.items[key]
             l1 == notify(l, item.key, item.value)
             l2 == [l1 EXCEPT !.items = Restrict(@, DOMAIN @ \ {key})]
             l3 == remEntry(l2, item.freqNode, item.key)
         IN  IF Stopped(l1) THEN [l |-> l1, present |-> FALSE]
             ELSE [l |-> [l3 EXCEPT !.currSize = @ - item.size],
                   present |-> TRUE]
    ELSE [l |-> l, present |-> FALSE]

\* --------------------------------------------------------------- evict
\* what one evict() did: l before, l2 after, the item it took
eviction(l, l2, victim) ==
    [key |-> victim.key,
     size |-> victim.size,
     hits |-> victim.hits,
     priorityKey |-> victim.priorityKey,
     inFront |-> victim.key \in l.freqs[1].entries,
     minBefore |-> MinOf(LivePriorities(l)),
     ageBefore |-> l.age,
     ageAfter |-> l2.age,
     minAfter |-> IF DOMAIN l2.items = {} THEN Inf
                  ELSE MinOf(LivePriorities(l2))]

\* (mutant) the age becomes the victim's hit count
evictAgeIsHits(l, place) ==
    IF Len(l.freqs) = 0 \/ l.freqs[place].entries = {}
    THEN {[l |-> l, ok |-> FALSE]}
    ELSE { LET victim == l.items[entry]
               l1 == [l EXCEPT !.age = victim.hits * Unit]
               l2 == remove(l1, victim.key).l
           IN  [l |-> [l2 EXCEPT !.evictions =
                           Append(@, eviction(l, l2, victim))],
                ok |-> TRUE]
         : entry \in l.freqs[place].entries }

\* (mutant) the age is left as it was
evictKeepsAge(l, place) ==
    IF Len(l.freqs) = 0 \/ l.freqs[place].entries = {}
    THEN {[l |-> l, ok |-> FALSE]}
    ELSE { LET victim == l.items[entry]
               l2 == remove(l, victim.key).l
           IN  [l |-> [l2 EXCEPT !.evictions =
                           Append(@, eviction(l, l2, victim))],
                ok |-> TRUE]
         : entry \in l.freqs[place].entries }

\* every outcome of one evict() that looks for its victim in the node at
\* position `place`: any member of that node may be taken ("since entries
\* is a map this is a random key")
evictAt(l, place) ==
    IF Len(l.freqs) = 0 \/ l.freqs[place].entries = {}
    THEN {[l |-> l, ok |-> FALSE]}
    ELSE { LET victim == l.items[entry]
               l1 == [l EXCEPT !.age = victim.priorityKey]
               l2 == remove(l1, victim.key).l
           IN  IF Stopped(l2) THEN [l |-> l2, ok |-> FALSE]
               ELSE [l |-> [l2 EXCEPT !.evictions =
                               Append(@, eviction(l, l2, victim))],
                     ok |-> TRUE]
         : entry \in l.freqs[place].entries }

\* (mutant) the victim is taken from the back of the list
evictBack(l) == evictAt(l, Len(l.freqs))

\* (mutant) evict() finds no element to take
evictFindsNothing(l) == {[l |-> l, ok |-> FALSE]}

\* place := l.freqs.Front()
evict(l) == evictAt(l, 1)

\* ----------------------------------------------------------------- Set
RECURSIVE evictLoopEmpties(_, _, _)
\* (mutant) once an eviction is needed the cache is emptied
evictLoopEmpties(l, nb, evicted) ==
    IF l.currSize + nb > l.size \/ (evicted /\ DOMAIN l.items # {})
    THEN UNION { IF o.ok THEN evictLoopEmpties(o.l, nb, TRUE)
                 ELSE {[l |-> o.l, evicted |-> TRUE, hung |-> TRUE]}
               : o \in evict(l) }
    ELSE {[l |-> l, evicted |-> evicted, hung |-> FALSE]}

RECURSIVE evictLoop(_, _, _)
\* "evict until there is room for the new item"; an evict() that removes
\* nothing leaves the loop condition true for ever (hung)
evictLoop(l, nb, evicted) ==
    IF l.currSize + nb > l.size
    THEN UNION { IF Stopped(o.l)
                 THEN {[l |-> o.l, evicted |-> TRUE, hung |-> FALSE]}
                 ELSE IF o.ok THEN evictLoop(o.l, nb, TRUE)
                 ELSE {[l |-> o.l, evicted |-> TRUE, hung |-> TRUE]}
               : o \in evict(l) }
    ELSE {[l |-> l, evicted |-> evicted, hung |-> FALSE]}

\* "value doesn't exist.  insert"
insert(l, key, value) ==
    LET e == [key |-> key, value |-> value, size |-> numBytes(value),
              hits |-> 0, priorityKey |-> 0, freqNode |-> 0]
        l1 == [l EXCEPT
                 !.items = [x \in DOMAIN @ \cup {key} |->
                              IF x = key THEN e ELSE @[x]],
                 !.currSize = @ + numBytes(value)]
    IN  increment(l1, key)

\* every outcome of Set(key, value), given the outcome `tooBig` of the test
\* "check this value will even fit in the cache"
setWith(l, key, value, tooBig) ==
    IF key \in DOMAIN l.items
    THEN {[l |-> increment([l EXCEPT !.items[key].value = value], key),
           evicted |-> FALSE, hung |-> FALSE]}
    ELSE IF tooBig
    THEN {[l |-> l, evicted |-> FALSE, hung |-> FALSE]}
    ELSE { IF o.hung \/ Stopped(o.l) THEN o
           ELSE [o EXCEPT !.l = insert(o.l, key, value)]
         : o \in evictLoop(l, numBytes(value), FALSE) }

\* (mutant) a value of exactly the capacity is rejected
setRejectsExactFit(l, key, value) ==
    setWith(l, key, value, l.size <= numBytes(value))

\* (mutant) "returns true if the value was set"
setReportsStored(l, key, value) ==
    { [o EXCEPT !.evicted = ~o.hung /\ key \in DOMAIN o.l.items]
    : o \in setWith(l, key, value, l.size < numBytes(value)) }

\* (mutant) a present key keeps its old value
setKeepsOldValue(l, key, value) ==
    IF key \in DOMAIN l.items
    THEN {[l |-> increment(l, key), evicted |-> FALSE, hung |-> FALSE]}
    ELSE setWith(l, key, value, l.size < numBytes(value))

\* (mutant) an overwrite records the size of the new value
setResizesOnOverwrite(l, key, value) ==
    IF key \in DOMAIN l.items
    THEN {[l |-> increment([l EXCEPT
                    !.items[key].value = value,
                    !.items[key].size = numBytes(value),
                    !.currSize = @ - l.items[key].size + numBytes(value)],
                  key),
           evicted |-> FALSE, hung |-> FALSE]}
    ELSE setWith(l, key, value, l.size < numBytes(value))

\* if l.size < numBytes { return false }
set(l, key, value) == setWith(l, key, value, l.size < numBytes(value))

\* --------------------------------------------------------------- Purge
Perms(S) ==
    {p \in [1..Cardinality(S) -> S] :
        \A i, j \in 1..Cardinality(S) : i # j => p[i] # p[j]}

RECURSIVE purgeLoop(_, _, _)
\* "for k, v := range l.items": notify, then delete, in map order `order`
purgeLoop(l, order, j) ==
    IF j > Len(order) THEN l
    ELSE LET k == order[j]
             l1 == notify(l, k, l.items[k].value)
         IN  IF Stopped(l1) THEN l1
             ELSE purgeLoop([l1 EXCEPT !.items = Restrict(@, DOMAIN @ \ {k})],
                            order, j + 1)

\* (mutant) the age survives the purge
purgeKeepsAge(l) ==
    { [purgeLoop(l, order, 1) EXCEPT !.currSize = 0, !.freqs = <<>>]
    : order \in Perms(DOMAIN l.items) }

purge(l) ==
    { LET l1 == purgeLoop(l, order, 1) IN
      IF Stopped(l1) THEN l1
      ELSE [l1 EXCEPT !.age = 0, !.currSize = 0, !.freqs = <<>>]
    : order \in Perms(DOMAIN l.items) }

\* ---------------------------------------------------------------- Keys
RECURSIVE keysWalk(_, _)
\* the walk from Back() to the front; the members of a node in any order
keysWalk(fr, i) ==
    IF i = 0 THEN {<<>>}
    ELSE {p \o rest : p \in Perms(fr[i].entries), rest \in keysWalk(fr, i - 1)}

\* (mutant) the walk goes from the front to Back()
keysFromFront(l) ==
    { [i \in 1..Len(w) |-> w[Len(w) + 1 - i]]
    : w \in keysWalk(l.freqs, Len(l.freqs)) }

\* keys := make([]interface{}, len(l.items)): slots never written stay nil
keys(l) ==
    { w \o [i \in 1..(Cardinality(DOMAIN l.items) - Len(w)) |-> Nil]
    : w \in keysWalk(l.freqs, Len(l.freqs)) }

\* --------------------------------------------------- the state machine
NoResult == [ok |-> FALSE, rvalue |-> Nil, rkeys |-> <<>>, rnum |-> 0]

\* A *list.Element is an opaque name.  Between operations the elements are
\* renamed to their position in the list, and every item's freqNode with
\* them; an element that left the list has no position (0).
Canon(l) ==
    [l EXCEPT
       !.items = [k \in DOMAIN @ |->
                    [@[k] EXCEPT !.freqNode = NodeIndex(l.freqs, @)]],
       !.freqs = [i \in 1..Len(@) |-> [@[i] EXCEPT !.id = i]]]

Install(l0) ==
    LET l == Canon(l0) IN
    /\ size' = l.size
    /\ currSize' = l.currSize
    /\ items' = l.items
    /\ freqs' = l.freqs
    /\ onEvict' = l.onEvict
    /\ panics' = l.panics
    /\ reenters' = l.reenters
    /\ age' = l.age
    /\ policy' = l.policy

Record(op, key, value, res, l, hung) ==
    last' = [op |-> op, key |-> key, value |-> value,
             ok |-> res.ok, rvalue |-> res.rvalue, rkeys |-> res.rkeys,
             rnum |-> res.rnum, fired |-> l.fired,
             evictions |-> l.evictions, hung |-> hung,
             panicked |-> l.panicked, blocked |-> l.blocked]

\* hit counts and (finite) priorities are cut off at MaxPriority
Bounded(l) ==
    \A k \in DOMAIN l.items :
        /\ l.items[k].hits <= MaxPriority
        /\ l.items[k].priorityKey \in (0..(MaxPriority * Unit)) \cup {Inf}

\* the zero value of sync.RWMutex
Unlocked == [writer |-> Nil, readers |-> {}]

NoReturn == [previous |-> Nil, ok |-> FALSE, evicted |-> FALSE]

\* a goroutine that is in no method of the Cache
Idle == [op |-> Nil, key |-> Nil, value |-> Nil, pc |-> "idle",
         ret |-> NoReturn]

Construct(capacity, pol, notifier, failing, reentering) ==
    /\ size = capacity
    /\ currSize = 0
    /\ items = [k \in {} |-> Nil]
    /\ freqs = <<>>
    /\ onEvict = notifier
    /\ panics = failing
    /\ reenters = reentering
    /\ lock = Unlocked
    /\ calls = [g \in Goroutines |-> Idle]
    /\ age = 0
    /\ policy = pol
    /\ last = [op |-> "New", key |-> Nil, value |-> Nil,
               ok |-> FALSE, rvalue |-> Nil, rkeys |-> <<>>, rnum |-> 0,
               fired |-> <<>>, evictions |-> <<>>, hung |-> FALSE,
               panicked |-> FALSE, blocked |-> FALSE]

NewLFUDA(capacity, notifier, failing) ==
    Construct(capacity, "LFUDA", notifier, failing, {})

NewGDSF(capacity, notifier, failing) ==
    Construct(capacity, "GDSF", notifier, failing, {})

\* no notifier, or one that returns
Init ==
    \E capacity \in Capacities, notifier \in BOOLEAN :
        NewLFUDA(capacity, notifier, {}) \/ NewGDSF(capacity, notifier, {})

\* a notifier that panics on the keys of PanicKeys
InitPanic ==
    \E capacity \in Capacities :
        \/ NewLFUDA(capacity, TRUE, PanicKeys)
        \/ NewGDSF(capacity, TRUE, PanicKeys)

\* a GDSF cache of a capacity of MixedCapacities, without notifier
InitMixed == \E capacity \in MixedCapacities : NewGDSF(capacity, FALSE, {})

\* a cache constructed with a capacity that is not positive
InitInvalid ==
    \E capacity \in InvalidCapacities :
        NewLFUDA(capacity, FALSE, {}) \/ NewGDSF(capacity, FALSE, {})

\* a small cache, for clients that store values of size 0 under any key
InitSmall ==
    \E capacity \in SmallCapacities :
        NewLFUDA(capacity, FALSE, {}) \/ NewGDSF(capacity, FALSE, {})

\* an operation starts when the one before it has returned; the model
\* follows the engine up to the first call that does not return or panics
Ready == ~last.hung /\ ~last.panicked /\ ~last.blocked

\* (mutant) a hit returns the value without counting it
GetWithoutHit(key) ==
    /\ Ready
    /\ UNCHANGED wrapper
    /\ UNCHANGED engine
    /\ IF key \in DOMAIN items
       THEN Record("Get", key, Nil,
                   [NoResult EXCEPT !.ok = TRUE, !.rvalue = items[key].value],
                   This, FALSE)
       ELSE Record("Get", key, Nil, NoResult, This, FALSE)

\* l.Get(key)
lfudaGet(key) ==
    /\ IF key \in DOMAIN items
       THEN LET l == increment(This, key) IN
            /\ Bounded(l)
            /\ Install(l)
            /\ Record("Get", key, Nil,
                      [NoResult EXCEPT !.ok = TRUE,
                                       !.rvalue = l.items[key].value],
                      l, FALSE)
       ELSE /\ UNCHANGED engine
            /\ Record("Get", key, Nil, NoResult, This, FALSE)

Get(key) == Ready /\ UNCHANGED wrapper /\ lfudaGet(key)

\* (mutant) a Peek of a present key counts as a hit
PeekCountsHit(key) ==
    /\ Ready
    /\ UNCHANGED wrapper
    /\ IF key \in DOMAIN items
       THEN LET l == increment(This, key) IN
            /\ Bounded(l)
            /\ Install(l)
            /\ Record("Peek", key, Nil,
                      [NoResult EXCEPT !.ok = TRUE,
                                       !.rvalue = l.items[key].value],
                      l, FALSE)
       ELSE /\ UNCHANGED engine
            /\ Record("Peek", key, Nil, NoResult, This, FALSE)

\* l.Peek(key)
lfudaPeek(key) ==
    /\ UNCHANGED engine
    /\ IF key \in DOMAIN items
       THEN Record("Peek", key, Nil,
                   [NoResult EXCEPT !.ok = TRUE, !.rvalue = items[key].value],
                   This, FALSE)
       ELSE Record("Peek", key, Nil, NoResult, This, FALSE)

Peek(key) == Ready /\ UNCHANGED wrapper /\ lfudaPeek(key)

\* l.Set(key, value)
lfudaSet(key, value) ==
    /\ \E o \in set(This, key, value) :
        /\ Bounded(o.l)
        /\ Install(o.l)
        /\ Record("Set", key, value, [NoResult EXCEPT !.ok = o.evicted],
                  o.l, o.hung)

Set(key, value) == Ready /\ UNCHANGED wrapper /\ lfudaSet(key, value)

\* l.Len()
lfudaLen ==
    /\ UNCHANGED engine
    /\ Record("Len", Nil, Nil,
              [NoResult EXCEPT !.rnum = Cardinality(DOMAIN items)],
              This, FALSE)

LenOp == Ready /\ UNCHANGED wrapper /\ lfudaLen

Size ==
    /\ Ready
    /\ UNCHANGED wrapper
    /\ UNCHANGED engine
    /\ Record("Size", Nil, Nil, [NoResult EXCEPT !.rnum = currSize],
              This, FALSE)

\* l.Purge()
lfudaPurge ==
    /\ \E l \in purge(This) :
        /\ Install(l)
        /\ Record("Purge", Nil, Nil, NoResult, l, FALSE)

Purge == Ready /\ UNCHANGED wrapper /\ lfudaPurge

\* l.Contains(key)
lfudaContains(key) ==
    /\ UNCHANGED engine
    /\ Record("Contains", key, Nil,
              [NoResult EXCEPT !.ok = (key \in DOMAIN items)], This, FALSE)

Contains(key) == Ready /\ UNCHANGED wrapper /\ lfudaContains(key)

\* (mutant) Remove always reports a removal
RemoveAlwaysTrue(key) ==
    /\ Ready
    /\ UNCHANGED wrapper
    /\ LET r == remove(This, key) IN
        /\ Install(r.l)
        /\ Record("Remove", key, Nil, [NoResult EXCEPT !.ok = TRUE],
                  r.l, FALSE)

\* l.Remove(key)
lfudaRemove(key) ==
    /\ LET r == remove(This, key) IN
        /\ Install(r.l)
        /\ Record("Remove", key, Nil, [NoResult EXCEPT !.ok = r.present],
                  r.l, FALSE)

Remove(key) == Ready /\ UNCHANGED wrapper /\ lfudaRemove(key)

\* l.Keys()
lfudaKeys ==
    /\ UNCHANGED engine
    /\ \E ks \in keys(This) :
        Record("Keys", Nil, Nil, [NoResult EXCEPT !.rkeys = ks], This, FALSE)

Keys == Ready /\ UNCHANGED wrapper /\ lfudaKeys

Age ==
    /\ Ready
    /\ UNCHANGED wrapper
    /\ UNCHANGED engine
    /\ Record("Age", Nil, Nil, [NoResult EXCEPT !.rnum = age], This, FALSE)

ValuesFor(key) ==
    {value \in ValueSet : numBytes(value) = 0 => key \in ZeroKeys}

Next ==
    \/ \E key \in KeySet : Get(key)
    \/ \E key \in KeySet : Peek(key)
    \/ \E key \in KeySet : \E value \in ValuesFor(key) : Set(key, value)
    \/ LenOp
    \/ Size
    \/ Purge
    \/ \E key \in KeySet : Contains(key)
    \/ \E key \in KeySet : Remove(key)
    \/ Keys
    \/ Age

Spec == Init /\ [][Next]_vars

\* the same operations on a cache whose notifier can panic
SpecPanic == InitPanic /\ [][Next]_vars

\* the operations of a client that stores any value under any key
NextAnyValue ==
    \/ \E key \in KeySet : Get(key)
    \/ \E key \in KeySet : Peek(key)
    \/ \E key \in KeySet : \E value \in ValueSet : Set(key, value)
    \/ LenOp
    \/ Size
    \/ Purge
    \/ \E key \in KeySet : Contains(key)
    \/ \E key \in KeySet : Remove(key)
    \/ Keys
    \/ Age

SpecSmall == InitSmall /\ [][NextAnyValue]_vars

SpecInvalid == InitInvalid /\ [][NextAnyValue]_vars

\* the same operations on a GDSF cache that has room for items of different
\* positive sizes
SpecMixed == InitMixed /\ [][Next]_vars

\* =================================================================
\* TestEvictBigValue: one goroutine runs the calls of the test, one after
\* the other, on an LFUDA cache of capacity 10; calls[TestGoroutine].pc
\* tells how many calls it has made
\* =================================================================
TestGoroutine == "g1"

\* c.Set(i, i): the key is the integer, the value renders as its digit
Digits == <<"0", "1", "2", "3", "4", "5", "6", "7", "8", "9">>

SetCall(key, value) == [op |-> "Set", key |-> key, value |-> value]

\* the calls of the test in their order, followed by one more admission
\* ("z"), a look at the key "a" and its second admission
BigValueScript ==
    <<SetCall("a", "aaaaaaaa"), SetCall("b", "b"), SetCall("c", "c"),
      [op |-> "Size", key |-> Nil, value |-> Nil]>>
    \o [i \in 1..10 |-> [op |-> "Get", key |-> "a", value |-> Nil]]
    \o [i \in 1..20 |-> SetCall(Digits[((i - 1) % 10) + 1],
                                Digits[((i - 1) % 10) + 1])]
    \o <<[op |-> "Age", key |-> Nil, value |-> Nil],
         [op |-> "Contains", key |-> "a", value |-> Nil],
         SetCall("x", "x"), SetCall("y", "y"),
         [op |-> "Contains", key |-> "a", value |-> Nil],
         [op |-> "Size", key |-> Nil, value |-> Nil],
         SetCall("z", "z"),
         [op |-> "Contains", key |-> "a", value |-> Nil],
         [op |-> "Size", key |-> Nil, value |-> Nil],
         [op |-> "Age", key |-> Nil, value |-> Nil],
         [op |-> "Get", key |-> "a", value |-> Nil],
         SetCall("a", "aaaaaaaa"),
         [op |-> "Contains", key |-> "a", value |-> Nil],
         [op |-> "Size", key |-> Nil, value |-> Nil]>>

\* c := NewLFUDA(10, nil)
InitBigValue ==
    /\ NewLFUDA(10, FALSE, {})
    /\ BigValueScript # <<>>

\* the position of the test after n calls, as a value of pc
At(n) == IF n = 0 THEN "idle"
         ELSE Digits[(n \div 10) + 1] \o Digits[(n % 10) + 1]

\* the number of calls the test has made
Made == CHOOSE n \in 0..Len(BigValueScript) : At(n) = calls[TestGoroutine].pc

TheCall == BigValueScript[Made + 1]

\* the next call of the test is a call of op
NextCall(op) ==
    /\ Ready
    /\ Made < Len(BigValueScript)
    /\ TheCall.op = op

Called ==
    /\ calls' = [calls EXCEPT ![TestGoroutine].pc = At(Made + 1)]
    /\ UNCHANGED lock

TestSet ==
    /\ NextCall("Set")
    /\ \E o \in set(This, TheCall.key, TheCall.value) :
          /\ Install(o.l)
          /\ Record("Set", TheCall.key, TheCall.value,
                    [NoResult EXCEPT !.ok = o.evicted], o.l, o.hung)
    /\ Called

TestGet ==
    /\ NextCall("Get")
    /\ IF TheCall.key \in DOMAIN items
       THEN LET l == increment(This, TheCall.key) IN
            /\ Install(l)
            /\ Record("Get", TheCall.key, Nil,
                      [NoResult EXCEPT !.ok = TRUE,
                                       !.rvalue = l.items[TheCall.key].value],
                      l, FALSE)
       ELSE /\ UNCHANGED engine
            /\ Record("Get", TheCall.key, Nil, NoResult, This, FALSE)
    /\ Called

TestContains ==
    /\ NextCall("Contains")
    /\ lfudaContains(TheCall.key)
    /\ Called

TestSize ==
    /\ NextCall("Size")
    /\ UNCHANGED engine
    /\ Record("Size", Nil, Nil, [NoResult EXCEPT !.rnum = currSize],
              This, FALSE)
    /\ Called

TestAge ==
    /\ NextCall("Age")
    /\ UNCHANGED engine
    /\ Record("Age", Nil, Nil, [NoResult EXCEPT !.rnum = age], This, FALSE)
    /\ Called

NextBigValue == TestSet \/ TestGet \/ TestContains \/ TestSize \/ TestAge

SpecBigValue == InitBigValue /\ [][NextBigValue]_vars

\* =================================================================
\* The thread-safe Cache: every method takes Cache.lock, calls the engine
\* and releases the lock
\* =================================================================
New(capacity) == NewLFUDA(capacity, FALSE, {})

NewWithEvict(capacity, onEvicted) == NewLFUDA(capacity, onEvicted, {})

InitCache ==
    \E capacity \in Capacities : New(capacity) \/ NewWithEvict(capacity, TRUE)

CacheOps ==
    {"Purge", "Set", "Get", "Contains", "Peek", "ContainsOrSet", "PeekOrSet",
     "Remove", "Keys", "Len"}

KeysOf(op) == IF op \in {"Purge", "Keys", "Len"} THEN {Nil} ELSE SharedKeys

ValuesOf(op) ==
    IF op \in {"Set", "ContainsOrSet", "PeekOrSet"} THEN SharedValues ELSE {Nil}

\* (mutant) Get takes the shared lock
exclusiveButGet(op) ==
    op \in {"Purge", "Set", "ContainsOrSet", "PeekOrSet", "Remove"}

\* (mutant) the compound methods take the shared lock
exclusiveButCompound(op) == op \in {"Purge", "Set", "Get", "Remove"}

\* (mutant) Remove takes the shared lock
exclusiveButRemove(op) ==
    op \in {"Purge", "Set", "Get", "ContainsOrSet", "PeekOrSet"}

\* the methods that call c.lock.Lock(); the others call c.lock.RLock()
exclusive(op) ==
    op \in {"Purge", "Set", "Get", "ContainsOrSet", "PeekOrSet", "Remove"}

\* sync.RWMutex: Lock() returns when nobody holds the lock, RLock() when no
\* writer holds it
Grant(g, write) ==
    IF write
    THEN /\ lock.writer = Nil
         /\ lock.readers = {}
         /\ lock' = [lock EXCEPT !.writer = g]
    ELSE /\ lock.writer = Nil
         /\ lock' = [lock EXCEPT !.readers = @ \cup {g}]

\* c.lock.Lock() / c.lock.RLock(): goroutine g enters method op when the
\* lock lets it in.  g calls the method from outside the Cache, or from the
\* notifier that a method of the Cache is running for it; sync.RWMutex does
\* not know which goroutine holds it.
Lock(g, op, key, value) ==
    /\ calls[g].pc \in {"idle", "callback"}
    /\ Grant(g, exclusive(op))
    /\ calls' = [calls EXCEPT ![g] =
                    IF calls[g].pc = "idle"
                    THEN [op |-> op, key |-> key, value |-> value,
                          pc |-> "locked", ret |-> NoReturn]
                    ELSE [@ EXCEPT !.pc = "nested"]]
    /\ UNCHANGED <<engine, last>>

\* g holds the lock in method op and has not called the engine yet
In(g, op) == calls[g].pc = "locked" /\ calls[g].op = op /\ Ready

\* the engine call has returned and g still holds the lock, or the notifier
\* panicked in it and the panic leaves the method, or the notifier is about
\* to call a method of the Cache
Returned(g, r) ==
    calls' = [calls EXCEPT ![g].pc = IF last'.panicked THEN "panicked"
                                     ELSE IF last'.blocked THEN "callback"
                                     ELSE "done",
                           ![g].ret = IF Stopped(last') THEN NoReturn ELSE r]

CachePurge(g) ==
    /\ In(g, "Purge")
    /\ lfudaPurge
    /\ Returned(g, NoReturn)
    /\ UNCHANGED lock

CacheSet(g) ==
    /\ In(g, "Set")
    /\ lfudaSet(calls[g].key, calls[g].value)
    /\ Returned(g, [NoReturn EXCEPT !.evicted = last'.ok])
    /\ UNCHANGED lock

CacheGet(g) ==
    /\ In(g, "Get")
    /\ lfudaGet(calls[g].key)
    /\ Returned(g, [NoReturn EXCEPT !.previous = last'.rvalue,
                                    !.ok = last'.ok])
    /\ UNCHANGED lock

CacheContains(g) ==
    /\ In(g, "Contains")
    /\ lfudaContains(calls[g].key)
    /\ Returned(g, [NoReturn EXCEPT !.ok = last'.ok])
    /\ UNCHANGED lock

CachePeek(g) ==
    /\ In(g, "Peek")
    /\ lfudaPeek(calls[g].key)
    /\ Returned(g, [NoReturn EXCEPT !.previous = last'.rvalue,
                                    !.ok = last'.ok])
    /\ UNCHANGED lock

\* (mutant) the presence check is a Get
ContainsOrSetByGet(g) ==
    /\ In(g, "ContainsOrSet")
    /\ lfudaGet(calls[g].key)
    /\ IF last'.ok
       THEN Returned(g, [NoReturn EXCEPT !.ok = TRUE])
       ELSE calls' = [calls EXCEPT ![g].pc = "checked"]
    /\ UNCHANGED lock

\* if c.lfuda.Contains(key) { return true, false }
ContainsOrSet(g) ==
    /\ In(g, "ContainsOrSet")
    /\ lfudaContains(calls[g].key)
    /\ IF last'.ok
       THEN Returned(g, [NoReturn EXCEPT !.ok = TRUE])
       ELSE calls' = [calls EXCEPT ![g].pc = "checked"]
    /\ UNCHANGED lock

\* previous, ok = c.lfuda.Peek(key); if ok { return previous, true, false }
PeekOrSet(g) ==
    /\ In(g, "PeekOrSet")
    /\ lfudaPeek(calls[g].key)
    /\ IF last'.ok
       THEN Returned(g, [NoReturn EXCEPT !.previous = last'.rvalue,
                                         !.ok = TRUE])
       ELSE calls' = [calls EXCEPT ![g].pc = "checked"]
    /\ UNCHANGED lock

\* evicted = c.lfuda.Set(key, value) of ContainsOrSet and PeekOrSet
SetIfAbsent(g) ==
    /\ calls[g].pc = "checked"
    /\ Ready
    /\ lfudaSet(calls[g].key, calls[g].value)
    /\ Returned(g, [NoReturn EXCEPT !.evicted = last'.ok])
    /\ UNCHANGED lock

CacheRemove(g) ==
    /\ In(g, "Remove")
    /\ lfudaRemove(calls[g].key)
    /\ Returned(g, [NoReturn EXCEPT !.ok = last'.ok])
    /\ UNCHANGED lock

CacheKeys(g) ==
    /\ In(g, "Keys")
    /\ lfudaKeys
    /\ Returned(g, NoReturn)
    /\ UNCHANGED lock

CacheLen(g) ==
    /\ In(g, "Len")
    /\ lfudaLen
    /\ Returned(g, NoReturn)
    /\ UNCHANGED lock

\* (mutant) a reader leaves without c.lock.RUnlock()
UnlockWriterOnly(g) ==
    /\ calls[g].pc = "done"
    /\ lock' = IF exclusive(calls[g].op)
               THEN [lock EXCEPT !.writer = Nil]
               ELSE lock
    /\ calls' = [calls EXCEPT ![g] = Idle]
    /\ UNCHANGED <<engine, last>>

\* c.lock.Unlock() / c.lock.RUnlock(), and the method returns
Unlock(g) ==
    /\ calls[g].pc = "done"
    /\ lock' = IF exclusive(calls[g].op)
               THEN [lock EXCEPT !.writer = Nil]
               ELSE [lock EXCEPT !.readers = @ \ {g}]
    /\ calls' = [calls EXCEPT ![g] = Idle]
    /\ UNCHANGED <<engine, last>>

NextCache ==
    \/ \E g \in Goroutines, op \in CacheOps :
          \E key \in KeysOf(op), value \in ValuesOf(op) :
              Lock(g, op, key, value)
    \/ \E g \in Goroutines : CachePurge(g)
    \/ \E g \in Goroutines : CacheSet(g)
    \/ \E g \in Goroutines : CacheGet(g)
    \/ \E g \in Goroutines : CacheContains(g)
    \/ \E g \in Goroutines : CachePeek(g)
    \/ \E g \in Goroutines : ContainsOrSet(g)
    \/ \E g \in Goroutines : PeekOrSet(g)
    \/ \E g \in Goroutines : SetIfAbsent(g)
    \/ \E g \in Goroutines : CacheRemove(g)
    \/ \E g \in Goroutines : CacheKeys(g)
    \/ \E g \in Goroutines : CacheLen(g)
    \/ \E g \in Goroutines : Unlock(g)

SpecCache == InitCache /\ [][NextCache]_vars

\* a Cache whose notifier panics on the keys of PanicKeys
InitCachePanic ==
    \E capacity \in Capacities : NewLFUDA(capacity, TRUE, PanicKeys)

\* the methods that release the lock with defer c.lock.Unlock()
deferred(op) == op \in {"ContainsOrSet", "PeekOrSet"}

\* the panic of the notifier leaves the method of g: the deferred calls
\* run, the statements after the engine call do not, and the caller of the
\* method recovers
Unwind(g) ==
    /\ calls[g].pc = "panicked"
    /\ lock' = IF deferred(calls[g].op)
               THEN [lock EXCEPT !.writer = Nil]
               ELSE lock
    /\ calls' = [calls EXCEPT ![g] = Idle]
    /\ last' = [last EXCEPT !.panicked = FALSE]
    /\ UNCHANGED engine

NextCachePanic == NextCache \/ \E g \in Goroutines : Unwind(g)

SpecCachePanic == InitCachePanic /\ [][NextCachePanic]_vars

\* ---------------------------------------------------------------
\* The same Cache with the goroutines that wait in c.lock.Lock() or
\* c.lock.RLock() made visible, and with the scheduling of the Go runtime
\* ---------------------------------------------------------------
\* a Cache with a notifier that returns
InitCacheFair == \E capacity \in Capacities : NewWithEvict(capacity, TRUE)

\* the engine call of method op stays within the hit counts and priorities
\* that are followed (the client issues no other call)
InBounds(op, key, value) ==
    CASE op = "Get" ->
           key \in DOMAIN items => Bounded(increment(This, key))
      [] op = "Set" ->
           \E o \in set(This, key, value) : Bounded(o.l)
      [] op \in {"ContainsOrSet", "PeekOrSet"} ->
           \/ key \in DOMAIN items
           \/ \E o \in set(This, key, value) : Bounded(o.l)
      [] OTHER -> TRUE

\* g calls a method of the Cache, whose first statement is c.lock.Lock()
\* (write) or c.lock.RLock()
Call(g, write) ==
    /\ calls[g].pc = "idle"
    /\ calls' = [calls EXCEPT ![g].pc = "waiting",
                              ![g].op = IF write THEN "Lock" ELSE "RLock"]
    /\ UNCHANGED <<engine, last, lock>>

\* c.lock.Lock() / c.lock.RLock() returns to the method op that g called
Acquire(g, op, key, value) ==
    /\ calls[g].pc = "waiting"
    /\ exclusive(op) <=> calls[g].op = "Lock"
    /\ Grant(g, exclusive(op))
    /\ InBounds(op, key, value)
    /\ calls' = [calls EXCEPT ![g] = [op |-> op, key |-> key, value |-> value,
                                      pc |-> "locked", ret |-> NoReturn]]
    /\ UNCHANGED <<engine, last>>

\* g gets the lock it waits for
Enter(g) ==
    \E op \in CacheOps :
        \E key \in KeysOf(op) \cap (IF op = "Set" THEN SharedKeys
                                     ELSE {Nil, FairKey}),
           value \in ValuesOf(op) \cap {Nil, FairValue} :
            Acquire(g, op, key, value)

\* the statements of the method that g is in, once it holds the lock
Proceed(g) ==
    \/ CachePurge(g)
    \/ CacheSet(g)
    \/ CacheGet(g)
    \/ CacheContains(g)
    \/ CachePeek(g)
    \/ ContainsOrSet(g)
    \/ PeekOrSet(g)
    \/ SetIfAbsent(g)
    \/ CacheRemove(g)
    \/ CacheKeys(g)
    \/ CacheLen(g)
    \/ Unlock(g)

NextCacheFair ==
    \/ \E g \in Goroutines, write \in BOOLEAN : Call(g, write)
    \/ \E g \in Goroutines : Enter(g)
    \/ \E g \in Goroutines : Proceed(g)

\* a goroutine that can run is run (the Go scheduler), and a goroutine that
\* waits for the lock gets it when it becomes free again and again
\* (sync.RWMutex: a blocked Lock() keeps new readers out, and sync.Mutex
\* hands the lock over to a starving waiter)
SpecCacheFair ==
    /\ InitCacheFair
    /\ [][NextCacheFair]_vars
    /\ \A g \in Goroutines : WF_vars(Proceed(g)) /\ SF_vars(Enter(g))

\* a Cache whose notifier calls a method of the Cache on the keys of
\* ReenterKeys
InitReentrant ==
    \E capacity \in Capacities :
        Construct(capacity, "LFUDA", TRUE, {}, ReenterKeys)

SpecReentrant == InitReentrant /\ [][NextCache]_vars

\* =================================================================
\* Properties
\* =================================================================
RECURSIVE SumSizes(_, _)
SumSizes(its, S) ==
    IF S = {} THEN 0
    ELSE LET k == CHOOSE x \in S : TRUE
         IN  its[k].size + SumSizes(its, S \ {k})

Evictions == {last.evictions[i] : i \in 1..Len(last.evictions)}

\* C1 -- byte budget: in every state currSize (what Size() returns) is the
\* sum of the recorded sizes of the live items, and is at most the capacity.
ByteBudget ==
    /\ currSize = SumSizes(items, DOMAIN items)
    /\ currSize <= size

\* C1 witness: a Set that evicted and left at least two items filling the
\* cache to its capacity.
ByteBudgetWitness ==
    /\ last.op = "Set"
    /\ last.evictions # <<>>
    /\ Cardinality(DOMAIN items) >= 2
    /\ currSize = size

\* C2 -- admission guarantee: a Set of an absent key with a value that fits
\* (size <= capacity, equality included) leaves the key present with that
\* value, hit count 1 and the value's size recorded, and currSize counts it,
\* whatever the hit counts and priorities already in the cache.
AdmissionGuarantee ==
    [][\A k \in KeySet :
        (/\ last'.op = "Set"
         /\ last'.key = k
         /\ ~last'.hung
         /\ k \notin DOMAIN items
         /\ numBytes(last'.value) <= size)
        => /\ k \in DOMAIN items'
           /\ items'[k].value = last'.value
           /\ items'[k].hits = 1
           /\ items'[k].size = numBytes(last'.value)
           /\ currSize' = SumSizes(items', DOMAIN items')
           /\ currSize' >= numBytes(last'.value)]_vars

\* C2 witness: a value of exactly the capacity was admitted into a cache
\* that first had to evict.
AdmissionWitness ==
    /\ last.op = "Set"
    /\ last.evictions # <<>>
    /\ numBytes(last.value) = size
    /\ last.key \in DOMAIN items
    /\ items[last.key].hits = 1

\* C3 -- the eviction victim is of lowest priority: every item evicted by a
\* Set was a member of the front node, and no item live at that moment had
\* a priority key below the victim's.
VictimLowestPriority ==
    \A e \in Evictions :
        /\ e.inFront
        /\ e.priorityKey = e.minBefore

\* C3 witness: an eviction that a strictly higher-priority item survived.
VictimLowestWitness ==
    /\ last.op = "Set"
    /\ \E e \in Evictions :
          /\ e.minAfter # Inf
          /\ e.minAfter > e.priorityKey

\* Aging measure of a live item x: how far its priority key lies above the
\* age, and how many other live items are not above the age.
Gap(x) ==
    IF items[x].priorityKey = Inf THEN Inf ELSE items[x].priorityKey - age

Tied(x) ==
    Cardinality({y \in DOMAIN items \ {x} : items[y].priorityKey <= age})

\* x is live before and after the step, which is neither a Purge nor a Get
\* or Set of x
Undisturbed(x) ==
    /\ x \in DOMAIN items
    /\ x \in DOMAIN items'
    /\ last'.op # "Purge"
    /\ ~(last'.op \in {"Get", "Set"} /\ last'.key = x)

\* (Gap, Tied) never grows, and an admission that evicts makes it smaller
AgingStep(x) ==
    /\ Gap(x) >= 0
    /\ \/ Gap(x)' < Gap(x)
       \/ Gap(x)' = Gap(x) /\ Tied(x)' <= Tied(x)
    /\ (last'.op = "Set" /\ last'.evictions # <<>>)
       => \/ Gap(x)' < Gap(x)
          \/ Gap(x)' = Gap(x) /\ Tied(x)' < Tied(x)

\* C4 -- aging liveness: for every live item x that is not the target of a
\* Get or Set, and with no Purge, the measure (Gap, Tied) of x, ordered
\* lexicographically over the naturals, never grows and strictly shrinks on
\* every admission that evicts while x survives; so x survives only finitely
\* many such admissions, that is, x is eventually evicted.
AgingProgress ==
    [][\A x \in KeySet : Undisturbed(x) => AgingStep(x)]_vars

\* the same for the items whose priority key is finite
AgingProgressFinite ==
    [][\A x \in KeySet :
          (Undisturbed(x) /\ items[x].priorityKey # Inf) => AgingStep(x)]_vars

AgeMonotone ==
    [][/\ last'.op = "Purge" => age' = 0
       /\ last'.op # "Purge" => age' >= age
       /\ (\/ last'.op \in {"Get", "Peek", "Contains", "Remove"}
           \/ last'.op = "Set" /\ last'.evictions = <<>>) => age' = age
       /\ \A i \in 1..Len(last'.evictions) :
             last'.evictions[i].ageAfter >= last'.evictions[i].ageBefore]_vars

\* C6 witness: an eviction raised an age that was already positive.
AgeMonotoneWitness ==
    \E e \in Evictions : e.ageBefore > 0 /\ e.ageAfter > e.ageBefore

\* C7 -- Set's return value: Set returns true exactly when the call removed
\* at least one item from the cache (each removal an eviction, notified when
\* a notifier is installed); it returns false when the key was already
\* present, when the value is larger than the capacity, and when the new item
\* fits in the free bytes.
SetReturnValue ==
    [][(last'.op = "Set" /\ ~last'.hung) =>
        LET gone == DOMAIN items \ DOMAIN items' IN
        /\ last'.ok <=> gone # {}
        /\ Len(last'.evictions) = Cardinality(gone)
        /\ {last'.evictions[i].key : i \in 1..Len(last'.evictions)} = gone
        /\ onEvict =>
             /\ Len(last'.fired) = Cardinality(gone)
             /\ {last'.fired[i].key : i \in 1..Len(last'.fired)} = gone
        /\ (\/ last'.key \in DOMAIN items
            \/ numBytes(last'.value) > size
            \/ currSize + numBytes(last'.value) <= size) => ~last'.ok]_vars

\* C7 witness: a Set returned true after evicting two items, both notified.
SetReturnWitness ==
    /\ last.op = "Set"
    /\ last.ok
    /\ onEvict
    /\ Len(last.evictions) = 2
    /\ Len(last.fired) = 2

\* C8 -- too-big rejection: a Set whose value is larger than the capacity
\* returns false, notifies nobody and leaves every field of the engine
\* unchanged, whether or not the key is present.
TooBigRejection ==
    [][(last'.op = "Set" /\ numBytes(last'.value) > size) =>
        /\ ~last'.ok
        /\ last'.fired = <<>>
        /\ UNCHANGED engine]_vars

\* the fields of an item other than its place in the bucket list
content(e) ==
    [key |-> e.key, value |-> e.value, size |-> e.size, hits |-> e.hits,
     priorityKey |-> e.priorityKey]

\* C9 -- Get's contract: on a present key Get returns the stored value and
\* true and adds one to that item's hit count, every other item keeping its
\* value, size, hit count and priority key; on an absent key it returns
\* not-found and changes nothing; either way the key set, currSize and age
\* are unchanged, nothing is evicted and nobody is notified.
GetContract ==
    [][\A k \in KeySet : (last'.op = "Get" /\ last'.key = k) =>
        /\ IF k \in DOMAIN items
           THEN /\ last'.ok
                /\ last'.rvalue = items[k].value
                /\ items'[k].hits = items[k].hits + 1
                /\ items'[k].value = items[k].value
                /\ items'[k].size = items[k].size
                /\ \A j \in DOMAIN items \ {k} :
                      content(items'[j]) = content(items[j])
           ELSE /\ ~last'.ok
                /\ last'.rvalue = Nil
                /\ UNCHANGED engine
        /\ DOMAIN items' = DOMAIN items
        /\ currSize' = currSize
        /\ age' = age
        /\ last'.evictions = <<>>
        /\ last'.fired = <<>>]_vars

\* C9 witness: a Get found its key and brought the hit count to 2 while
\* another item is present.
GetContractWitness ==
    /\ last.op = "Get"
    /\ last.ok
    /\ items[last.key].hits = 2
    /\ Cardinality(DOMAIN items) = 2

\* C10 -- the read-only operations are pure: a Peek, Contains, Keys, Len,
\* Size or Age step, on a present or an absent key, leaves every field of the
\* engine unchanged and notifies nobody.
ReadOnlyPure ==
    [][last'.op \in {"Peek", "Contains", "Keys", "Len", "Size", "Age"} =>
        /\ UNCHANGED engine
        /\ last'.fired = <<>>
        /\ last'.evictions = <<>>]_vars

\* C10 witness: a Peek found a key that sits in the front node, below
\* another node.
ReadOnlyWitness ==
    /\ last.op = "Peek"
    /\ last.ok
    /\ Len(freqs) >= 2
    /\ last.key \in freqs[1].entries

\* the nodes of the bucket list that hold key k
NodesOf(fr, k) == {i \in 1..Len(fr) : k \in fr[i].entries}

\* C11 -- overwrite: a Set of a present key stores the new value (the one a
\* Get or Peek then returns), counts one hit on the item, and leaves exactly
\* one item for the key: the key set is unchanged and the key is a member of
\* exactly one node of the bucket list.
Overwrite ==
    [][\A k \in KeySet :
        (last'.op = "Set" /\ last'.key = k /\ k \in DOMAIN items) =>
           /\ DOMAIN items' = DOMAIN items
           /\ items'[k].value = last'.value
           /\ items'[k].hits = items[k].hits + 1
           /\ Cardinality(NodesOf(freqs', k)) = 1]_vars

\* C11 witness: a Set found its key present with one hit and left it with
\* the new value and two hits.
OverwriteWitness ==
    /\ last.op = "Set"
    /\ last.key \in DOMAIN items
    /\ items[last.key].hits = 2
    /\ items[last.key].value = last.value

\* C12 -- Remove: it returns true exactly when the key was present; then the
\* key is gone from the index and from every node, the other keys stay, and
\* currSize drops by the item's recorded size; on an absent key (so also on a
\* repeated Remove) it returns false, notifies nobody and changes nothing.
RemoveContract ==
    [][\A k \in KeySet : (last'.op = "Remove" /\ last'.key = k) =>
        /\ last'.ok <=> k \in DOMAIN items
        /\ k \notin DOMAIN items'
        /\ NodesOf(freqs', k) = {}
        /\ IF k \in DOMAIN items
           THEN /\ DOMAIN items' = DOMAIN items \ {k}
                /\ currSize' = currSize - items[k].size
           ELSE /\ UNCHANGED engine
                /\ last'.fired = <<>>]_vars

\* C12 witness: a Remove took one of two items out of a full cache.
RemoveWitness ==
    /\ last.op = "Remove"
    /\ last.ok
    /\ Cardinality(DOMAIN items) = 1
    /\ currSize = size - 1

PurgeResets ==
    [][last'.op = "Purge" =>
        /\ DOMAIN items' = {}
        /\ freqs' = <<>>
        /\ currSize' = 0
        /\ age' = 0
        /\ UNCHANGED <<size, policy, onEvict>>]_vars

\* C14 witness: a Purge emptied a cache that held two items.
PurgeWitness ==
    /\ last.op = "Purge"
    /\ Len(last.fired) = 2
    /\ DOMAIN items = {}

\* the keys that an operation took out of the cache
Departed == DOMAIN items \ DOMAIN items'

\* C15 -- the notifier runs exactly once per departure: with a notifier
\* installed, the calls made during one operation are one per item that left
\* the cache, each with that item's key and stored value, and there is no
\* other call (none in Get, Peek, Contains, Keys, Len, Size, Age, an
\* overwrite, a rejected Set, a Remove of an absent key); so the number of
\* items grows by the admissions and shrinks by the notifier calls.  Without
\* a notifier nothing is called.
NotifiedOncePerDeparture ==
    [][/\ ~onEvict => last'.fired = <<>>
       /\ onEvict =>
            /\ Len(last'.fired) = Cardinality(Departed)
            /\ \A k \in Departed :
                  \E i \in 1..Len(last'.fired) :
                      /\ last'.fired[i].key = k
                      /\ last'.fired[i].value = items[k].value
            /\ Cardinality(DOMAIN items') + Len(last'.fired)
                 = Cardinality(DOMAIN items)
                   + Cardinality(DOMAIN items' \ DOMAIN items)]_vars

\* C15 witness: with a notifier installed, a Remove took an item out and
\* left another in the cache.
NotifiedWitness ==
    /\ onEvict
    /\ last.op = "Remove"
    /\ last.ok
    /\ Len(last.fired) = 1
    /\ DOMAIN items # {}

\* C16 -- notifier ordering: whenever the notifier runs for a departing
\* item, that item is already out of the key index and out of every node of
\* the bucket list.
NotifiedAfterUnlink ==
    \A i \in 1..Len(last.fired) :
        /\ ~last.fired[i].indexed
        /\ ~last.fired[i].bucketed

\* the invariants of the engine's structure
Consistent ==
    /\ DOMAIN items = UNION {freqs[i].entries : i \in 1..Len(freqs)}
    /\ \A i \in 1..Len(freqs) : freqs[i].entries # {}
    /\ currSize = SumSizes(items, DOMAIN items)
    /\ \A k \in DOMAIN items : age <= items[k].priorityKey

\* C17 -- a failing notifier keeps the engine consistent: when a panic of
\* the notifier has unwound a Set, a Remove or a Purge, the state left behind
\* has the key index equal to the union of the bucket members, no empty
\* bucket, currSize equal to the sum of the live sizes and the age at most
\* every live priority key.
PanicKeepsConsistent == last.panicked => Consistent

\* the same for the panics that unwind a Set or a Remove only
PanicOutsidePurgeKeepsConsistent ==
    (last.panicked /\ last.op # "Purge") => Consistent

\* g is between taking and releasing Cache.lock
Inside(g) == calls[g].pc # "idle"

\* C18 -- the lock linearizes the Cache: while a goroutine is inside Set,
\* Get, Purge, Remove, ContainsOrSet or PeekOrSet no other goroutine is
\* inside any method, so only Contains, Peek, Keys and Len overlap; each call
\* of the engine then runs alone against the state left by the calls before
\* it.
LockLinearizes ==
    \A g, h \in Goroutines :
        (/\ g # h
         /\ Inside(g)
         /\ calls[g].op \in {"Set", "Get", "Purge", "Remove",
                             "ContainsOrSet", "PeekOrSet"})
        => ~Inside(h)

\* C18 witness: a goroutine is inside Set, which has evicted, and holds the
\* lock as its writer.
LockLinearizesWitness ==
    \E g \in Goroutines :
        /\ calls[g].op = "Set"
        /\ calls[g].pc = "done"
        /\ calls[g].ret.evicted
        /\ lock.writer = g

\* C19 -- the compound methods are atomic: from the moment ContainsOrSet or
\* PeekOrSet of goroutine g has found its key absent until its Set, the key
\* stays absent and no step of another goroutine changes the engine; the Set
\* then admits the key once, with g's value and one hit, and g reports that
\* the key was not present.
CompoundAtomic ==
    [][\A g \in Goroutines : calls[g].pc = "checked" =>
        /\ calls[g].key \notin DOMAIN items
        /\ calls'[g].pc = "checked" => UNCHANGED engine
        /\ calls'[g].pc # "checked" =>
             /\ calls[g].key \in DOMAIN items'
             /\ items'[calls[g].key].value = calls[g].value
             /\ items'[calls[g].key].hits = 1
             /\ ~calls'[g].ret.ok]_vars

\* C19 witness: a compound method has found its key absent in a cache that
\* holds another key, and has not called Set yet.
CompoundAtomicWitness ==
    \E g \in Goroutines :
        /\ calls[g].pc = "checked"
        /\ calls[g].op = "ContainsOrSet"
        /\ DOMAIN items # {}

\* the fields of the engine in the record l
EngineOf(l) ==
    <<l.size, l.currSize, l.items, l.freqs, l.onEvict, l.panics, l.reenters,
      l.age, l.policy>>

\* C20 -- check-then-set: on a present key ContainsOrSet returns
\* (true, false) and PeekOrSet (stored value, true, false) and the engine is
\* unchanged; on an absent key the presence check changes nothing and what follows is
\* an outcome of Set(key, value): the engine Set leaves, and
\* (false, evicted) resp. (nil, false, evicted) with Set's result.
CheckThenSet ==
    [][\A g \in Goroutines :
        /\ (/\ calls[g].pc = "locked"
            /\ calls[g].op \in {"ContainsOrSet", "PeekOrSet"}
            /\ calls'[g].pc # "locked") =>
              /\ UNCHANGED engine
              /\ IF calls[g].key \in DOMAIN items
                 THEN /\ calls'[g].pc = "done"
                      /\ calls'[g].ret =
                           [previous |-> IF calls[g].op = "PeekOrSet"
                                         THEN items[calls[g].key].value
                                         ELSE Nil,
                            ok |-> TRUE, evicted |-> FALSE]
                 ELSE calls'[g].pc = "checked"
        /\ (calls[g].pc = "checked" /\ calls'[g].pc # "checked") =>
              /\ calls'[g].pc = "done"
              /\ \E o \in set(This, calls[g].key, calls[g].value) :
                    /\ engine' = EngineOf(Canon(o.l))
                    /\ calls'[g].ret = [previous |-> Nil, ok |-> FALSE,
                                        evicted |-> o.evicted]]_vars

\* C20 witness: PeekOrSet found its key present and returned the stored
\* value, which is not the value it was given and is still the one stored.
CheckThenSetWitness ==
    \E g \in Goroutines :
        /\ calls[g].op = "PeekOrSet"
        /\ calls[g].pc = "done"
        /\ calls[g].ret.ok
        /\ calls[g].ret.previous # calls[g].value
        /\ items[calls[g].key].value = calls[g].ret.previous

\* the members of the front (lowest-priority) bucket
Front(fr) == IF fr = <<>> THEN {} ELSE fr[1].entries

\* C21 -- bounded eviction of the lowest bucket: every admission of an absent
\* key that has to evict takes at least one member of the front bucket, and
\* the members it leaves are again the whole front bucket: the admitted item
\* lands strictly above them.  The same holds across every other step that
\* neither hits a member nor admits a key without evicting, so a front
\* bucket of m items that are not hit is gone after m such admissions,
\* whichever tied member is taken each time.
LowestBucketDrains ==
    [][LET F == Front(freqs)
           S == F \cap DOMAIN items'
           hit == last'.op \in {"Get", "Set"} /\ last'.key \in F
           admits == last'.op = "Set" /\ last'.key \notin DOMAIN items
       IN  /\ (~hit /\ ~(admits /\ last'.evictions = <<>>) /\ S # {})
                => Front(freqs') = S
           /\ (admits /\ last'.evictions # <<>>)
                => /\ S # F
                   /\ last'.key \in DOMAIN items'
                   /\ last'.key \notin S
                   /\ \A k \in F : items'[last'.key].priorityKey
                                     > items[k].priorityKey]_vars

\* C21 witness: an admission evicted one member of a front bucket of two
\* tied items; the other one is now the front bucket, below the new item.
LowestBucketWitness ==
    /\ last.op = "Set"
    /\ Len(last.evictions) = 1
    /\ last.key \in DOMAIN items
    /\ \E k \in Front(freqs) :
          /\ k # last.key
          /\ items[k].priorityKey = last.evictions[1].priorityKey
          /\ items[last.key].priorityKey > items[k].priorityKey

\* C22 -- LFUDA priority formula: under LFUDA every increment (admission,
\* Get hit, overwrite by Set) leaves the item with one more hit and the
\* priority key hits + age, the age being the one after the evictions of the
\* same Set; a freshly admitted item has hits 1 and priority key age + 1.
LfudaFormula ==
    [][\A k \in KeySet :
        (/\ policy = "LFUDA"
         /\ last'.op \in {"Get", "Set"}
         /\ last'.key = k
         /\ k \in DOMAIN items') =>
           /\ items'[k].hits = (IF k \in DOMAIN items THEN items[k].hits
                                ELSE 0) + 1
           /\ items'[k].priorityKey = items'[k].hits * Unit + age'
           /\ k \notin DOMAIN items => items'[k].priorityKey = age' + Unit]_vars

\* C22 witness: under LFUDA an item was admitted by a Set that evicted and
\* raised the age; its priority key is the new age plus one.
LfudaFormulaWitness ==
    /\ policy = "LFUDA"
    /\ last.op = "Set"
    /\ \E e \in Evictions : e.ageAfter > e.ageBefore
    /\ age > 0
    /\ last.key \in DOMAIN items
    /\ items[last.key].hits = 1
    /\ items[last.key].priorityKey = age + Unit

\* hits / size on the fixed-point representation (+Inf for a size of 0)
Quotient(hits, bytes) ==
    IF bytes = 0 THEN Inf ELSE (hits * Unit) \div bytes

\* the age at which a GDSF item of finite priority key was last incremented
AgeAtIncrement(e) == e.priorityKey - Quotient(e.hits, e.size)

\* the position of key k among the victims of the last Set, 0 if none
VictimIndex(evs, k) ==
    IF \E i \in 1..Len(evs) : evs[i].key = k
    THEN CHOOSE i \in 1..Len(evs) : evs[i].key = k
    ELSE 0

\* C23 -- GDSF size penalty: under GDSF every increment leaves the item with
\* one more hit, the size recorded at its admission, and the priority key
\* hits / size + age.  Of two live items with equal hit counts, last
\* incremented at the same age, the strictly larger one has the strictly
\* lower priority key, and a Set never evicts the smaller one while the
\* larger one stays.
GdsfSizePenalty ==
    [][/\ \A k \in KeySet :
            (/\ policy = "GDSF"
             /\ last'.op \in {"Get", "Set"}
             /\ last'.key = k
             /\ k \in DOMAIN items') =>
               /\ items'[k].hits = (IF k \in DOMAIN items THEN items[k].hits
                                    ELSE 0) + 1
               /\ items'[k].size = (IF k \in DOMAIN items THEN items[k].size
                                    ELSE numBytes(last'.value))
               /\ items'[k].priorityKey =
                    fadd(Quotient(items'[k].hits, items'[k].size), age')
       /\ \A k1, k2 \in DOMAIN items :
            (/\ policy = "GDSF"
             /\ items[k1].hits = items[k2].hits
             /\ 0 < items[k1].size
             /\ items[k1].size < items[k2].size
             /\ AgeAtIncrement(items[k1]) = AgeAtIncrement(items[k2])) =>
               /\ items[k2].priorityKey < items[k1].priorityKey
               /\ VictimIndex(last'.evictions, k1) # 0 =>
                    /\ VictimIndex(last'.evictions, k2) # 0
                    /\ VictimIndex(last'.evictions, k2)
                         < VictimIndex(last'.evictions, k1)]_vars

\* C23 witness: a GDSF Set evicted an item of size 2 and left a live item of
\* size 1 that has the same hit count and was last incremented at the same
\* age.
GdsfSizePenaltyWitness ==
    /\ policy = "GDSF"
    /\ last.op = "Set"
    /\ \E e \in Evictions : \E k \in DOMAIN items :
          /\ k # last.key
          /\ e.size = 2
          /\ items[k].size = 1
          /\ items[k].hits = e.hits
          /\ AgeAtIncrement(items[k]) = AgeAtIncrement(e)

\* a GDSF Set evicted a larger item that had more hits than a smaller item
\* admitted after it, which stays
LargeHitItemEvictedFirst ==
    /\ policy = "GDSF"
    /\ last.op = "Set"
    /\ \E e \in Evictions : \E k \in DOMAIN items :
          /\ k # last.key
          /\ e.size > items[k].size
          /\ items[k].size > 0
          /\ e.hits > items[k].hits
          /\ AgeAtIncrement(items[k]) > AgeAtIncrement(e)

InvalidCapacityRejected ==
    last.op = "Set" => size > 0

\* a Set has stored an item in a cache that was constructed with capacity 0
StoredAtCapacityZero ==
    /\ size = 0
    /\ last.op = "Set"
    /\ last.key \in DOMAIN items

\* the positions of the buckets that have key k as a member
BucketsOf(fr, k) == {i \in 1..Len(fr) : k \in fr[i].entries}

\* C26 -- index/bucket consistency: the keys of the index are the keys of
\* all bucket members; every live item is a member of exactly one bucket,
\* the one its freqNode points to; no bucket has a member that is not in
\* the index.
IndexBucketConsistency ==
    /\ DOMAIN items = UNION {freqs[i].entries : i \in 1..Len(freqs)}
    /\ \A k \in DOMAIN items :
          /\ items[k].key = k
          /\ items[k].freqNode \in 1..Len(freqs)
          /\ freqs[items[k].freqNode].id = items[k].freqNode
          /\ BucketsOf(freqs, k) = {items[k].freqNode}
    /\ \A i \in 1..Len(freqs) : freqs[i].entries \subseteq DOMAIN items

\* C26 witness: a hit moved an item out of a bucket it shared into a bucket
\* of its own, behind the one that keeps the other member.
IndexBucketWitness ==
    /\ last.op = "Get"
    /\ last.ok
    /\ Len(freqs) = 2
    /\ Cardinality(DOMAIN items) = 2
    /\ items[last.key].freqNode = 2
    /\ freqs[2].entries = {last.key}

\* C27 -- bucket list order: from front to back the priority keys of the
\* buckets strictly increase, so no two buckets share one, and no bucket is
\* empty.
BucketOrder ==
    /\ \A i, j \in 1..Len(freqs) :
          i < j => freqs[i].priorityKey < freqs[j].priorityKey
    /\ \A i \in 1..Len(freqs) : freqs[i].entries # {}

\* the same for the buckets of finite priority key
BucketOrderFinite ==
    /\ \A i, j \in 1..Len(freqs) :
          (i < j /\ freqs[i].priorityKey # Inf)
            => freqs[i].priorityKey < freqs[j].priorityKey
    /\ \A i \in 1..Len(freqs) : freqs[i].entries # {}

\* C28 -- member/bucket priority agreement: every member's priorityKey is
\* its bucket's priorityKey, and is policy(item, a) for an age a the cache
\* has had; an increment makes it policy(item, age) for the age of that
\* moment and nothing else changes it.
MemberBucketAgreement ==
    [][/\ \A i \in 1..Len(freqs') : \A k \in freqs'[i].entries :
            items'[k].priorityKey = freqs'[i].priorityKey
       /\ \A k \in DOMAIN items' :
            /\ \E a \in 0..age' :
                  items'[k].priorityKey =
                    applyPolicy([policy |-> policy', age |-> a], items'[k])
            /\ IF k \in DOMAIN items /\ items'[k].hits = items[k].hits
               THEN items'[k].priorityKey = items[k].priorityKey
               ELSE items'[k].priorityKey =
                      applyPolicy([policy |-> policy', age |-> age'],
                                  items'[k])]_vars

\* C28 witness: two members of one bucket that were last incremented at
\* different ages: one was hit twice at age 0, the other admitted after an
\* eviction had raised the age.
MemberBucketWitness ==
    \E i \in 1..Len(freqs) : \E k1, k2 \in freqs[i].entries :
        /\ age > 0
        /\ items[k1].hits = 2
        /\ items[k2].hits = 1
        /\ items[k1].priorityKey = freqs[i].priorityKey
        /\ items[k2].priorityKey = freqs[i].priorityKey

\* C29 -- per-item priority only moves forward: while an item lives its
\* priority key never decreases; a hit (Get or overwrite) puts it in a bucket
\* of strictly higher priority key, behind its old one; operations on other
\* keys leave the item as it is; the bucket list stays sorted.
PriorityForward ==
    [][/\ \A k \in DOMAIN items \cap DOMAIN items' :
            /\ items'[k].priorityKey >= items[k].priorityKey
            /\ IF last'.op \in {"Get", "Set"} /\ last'.key = k
               THEN /\ items'[k].priorityKey > items[k].priorityKey
                    /\ freqs'[items'[k].freqNode].priorityKey
                         > freqs[items[k].freqNode].priorityKey
               ELSE content(items'[k]) = content(items[k])
       /\ \A i, j \in 1..Len(freqs') :
            i < j => freqs'[i].priorityKey <= freqs'[j].priorityKey]_vars

\* the same for the items of finite priority key
PriorityForwardFinite ==
    [][/\ \A k \in DOMAIN items \cap DOMAIN items' :
            /\ items'[k].priorityKey >= items[k].priorityKey
            /\ IF last'.op \in {"Get", "Set"} /\ last'.key = k
               THEN items[k].priorityKey # Inf =>
                    /\ items'[k].priorityKey > items[k].priorityKey
                    /\ freqs'[items'[k].freqNode].priorityKey
                         > freqs[items[k].freqNode].priorityKey
               ELSE content(items'[k]) = content(items[k])
       /\ \A i, j \in 1..Len(freqs') :
            i < j => freqs'[i].priorityKey <= freqs'[j].priorityKey]_vars

\* the bytes freed by the first n evictions of a Set
RECURSIVE Freed(_, _)
Freed(evs, n) == IF n = 0 THEN 0 ELSE evs[n].size + Freed(evs, n - 1)

\* C30 -- minimal eviction: a Set that admits an absent key of size
\* s <= capacity evicts nothing if currSize + s <= capacity; otherwise it
\* evicts one item at a time, each while the new item still does not fit,
\* and stops as soon as it fits; its victims leave in non-decreasing order
\* of priority key.
MinimalEviction ==
    [][(/\ last'.op = "Set"
        /\ last'.key \notin DOMAIN items
        /\ numBytes(last'.value) <= size) =>
          LET s == numBytes(last'.value)
              evs == last'.evictions
          IN  /\ ~last'.hung
              /\ currSize + s <= size => evs = <<>>
              /\ \A i \in 1..Len(evs) :
                    /\ evs[i].key \in DOMAIN items
                    /\ evs[i].size = items[evs[i].key].size
                    /\ currSize - Freed(evs, i - 1) + s > size
              /\ currSize - Freed(evs, Len(evs)) + s <= size
              /\ \A i, j \in 1..Len(evs) :
                    i < j => /\ evs[i].key # evs[j].key
                             /\ evs[i].priorityKey <= evs[j].priorityKey
              /\ DOMAIN items' =
                   (DOMAIN items \ {evs[i].key : i \in 1..Len(evs)})
                     \cup {last'.key}
              /\ last'.ok = (evs # <<>>)]_vars

\* C30 witness: a Set had to evict two items of different priority keys, the
\* lower one first, because after the first eviction its value still did not
\* fit.
MinimalEvictionWitness ==
    /\ last.op = "Set"
    /\ last.key \in DOMAIN items
    /\ Len(last.evictions) = 2
    /\ last.evictions[1].priorityKey < last.evictions[2].priorityKey
    /\ currSize + last.evictions[2].size > size

\* a Set evicted one item and stopped although another one could be evicted
StoppedAtFirstFit ==
    /\ last.op = "Set"
    /\ Len(last.evictions) = 1
    /\ Cardinality(DOMAIN items) = 2

\* C31 -- Set terminates: the admission loop never asks evict() for an item
\* it cannot give (no Set hangs); a Set performs at most as many evictions
\* as there were items, each of them removes an item of the cache, items of
\* size 0 included; and whenever bytes are cached the front bucket has a
\* member to evict.
SetTerminates ==
    [][last'.op = "Set" =>
        LET evs == last'.evictions
            victims == {evs[i].key : i \in 1..Len(evs)}
        IN  /\ ~last'.hung
            /\ Len(evs) <= Cardinality(DOMAIN items)
            /\ Cardinality(victims) = Len(evs)
            /\ victims \subseteq DOMAIN items
            /\ victims \cap DOMAIN items' = {}
            /\ currSize' > 0 => Front(freqs') # {}]_vars

\* C31 witness: a Set first evicted an item of size 0, which freed nothing,
\* and then a second item, and returned.
SetTerminatesWitness ==
    /\ last.op = "Set"
    /\ ~last.hung
    /\ Len(last.evictions) = 2
    /\ last.evictions[1].size = 0
    /\ last.key \in DOMAIN items

\* the bytes of the values that are stored
RECURSIVE StoredBytes(_, _)
StoredBytes(its, S) ==
    IF S = {} THEN 0
    ELSE LET k == CHOOSE x \in S : TRUE
         IN  numBytes(its[k].value) + StoredBytes(its, S \ {k})

\* C32 -- Size is the true byte load: currSize (what Size() returns) is the
\* sum over the live keys of the size of the value now stored for the key,
\* also after an overwrite by a value of another size, and the bytes stored
\* never exceed the capacity.
TrueByteLoad ==
    /\ currSize = StoredBytes(items, DOMAIN items)
    /\ StoredBytes(items, DOMAIN items) <= size

\* the same for the sizes recorded at admission
RecordedByteLoad ==
    /\ currSize = SumSizes(items, DOMAIN items)
    /\ \A k \in DOMAIN items :
          items[k].hits = 1 => items[k].size = numBytes(items[k].value)

\* two items stand in the same bucket order before and after a step
SameOrder(a, b) ==
    /\ items[a].freqNode < items[b].freqNode
         <=> items'[a].freqNode < items'[b].freqNode
    /\ items[a].freqNode = items[b].freqNode
         <=> items'[a].freqNode = items'[b].freqNode

\* C33 -- overwrite frame: a Set of a present key stores the value and counts
\* one hit on the key, and nothing else: it returns false, evicts nothing,
\* notifies nobody, and leaves the key set, currSize, the recorded size of
\* the item, the age and every other item as they were, whatever the size of
\* the value.
OverwriteFrame ==
    [][\A k \in KeySet :
        (last'.op = "Set" /\ last'.key = k /\ k \in DOMAIN items) =>
           /\ ~last'.ok
           /\ last'.evictions = <<>>
           /\ last'.fired = <<>>
           /\ DOMAIN items' = DOMAIN items
           /\ currSize' = currSize
           /\ age' = age
           /\ size' = size
           /\ items'[k] = [items[k] EXCEPT
                             !.value = last'.value,
                             !.hits = @ + 1,
                             !.priorityKey = items'[k].priorityKey,
                             !.freqNode = items'[k].freqNode]
           /\ \A j \in DOMAIN items \ {k} :
                 /\ content(items'[j]) = content(items[j])
                 /\ \A h \in DOMAIN items \ {k} : SameOrder(j, h)]_vars

\* C33 witness: with a notifier installed and another item in the cache, a
\* Set overwrote a value by one that is larger than the whole capacity; the
\* recorded size and currSize are the old ones.
OverwriteFrameWitness ==
    /\ last.op = "Set"
    /\ ~last.ok
    /\ onEvict
    /\ last.fired = <<>>
    /\ last.key \in DOMAIN items
    /\ items[last.key].hits = 2
    /\ numBytes(items[last.key].value) > size
    /\ items[last.key].size < numBytes(items[last.key].value)
    /\ Cardinality(DOMAIN items) = 2
    /\ currSize = SumSizes(items, DOMAIN items)

\* C34 -- Remove frame: a Remove leaves the age as it was, and every other
\* item with its value, hit count, priority key, bucket and place in the
\* bucket order; only the removed item disappears, and its bucket if it was
\* the only member.
RemoveFrame ==
    [][\A k \in KeySet :
        (last'.op = "Remove" /\ last'.key = k /\ k \in DOMAIN items) =>
           /\ age' = age
           /\ size' = size
           /\ DOMAIN items' = DOMAIN items \ {k}
           /\ \A j \in DOMAIN items \ {k} :
                 /\ content(items'[j]) = content(items[j])
                 /\ Cardinality(BucketsOf(freqs', j)) = 1
                 /\ freqs'[items'[j].freqNode].entries
                      = freqs[items[j].freqNode].entries \ {k}
                 /\ \A h \in DOMAIN items \ {k} : SameOrder(j, h)
           /\ Len(freqs') =
                IF freqs[items[k].freqNode].entries = {k}
                THEN Len(freqs) - 1 ELSE Len(freqs)]_vars

\* C34 witness: a Remove at a positive age left two items, in two buckets.
RemoveFrameWitness ==
    /\ last.op = "Remove"
    /\ last.ok
    /\ age > 0
    /\ Cardinality(DOMAIN items) = 2
    /\ Len(freqs) = 2

\* C39 -- GDSF never divides by zero: under GDSF every item in the cache has a
\* size above 0, and every priority key and the age are finite.
GdsfFinite ==
    policy = "GDSF" =>
        /\ \A k \in DOMAIN items :
              /\ items[k].size > 0
              /\ items[k].priorityKey # Inf
        /\ \A i \in 1..Len(freqs) : freqs[i].priorityKey # Inf
        /\ age # Inf

\* the age is finite, and so is the priority key of every item of a
\* positive size
FiniteButForSizeZero ==
    /\ age # Inf
    /\ \A k \in DOMAIN items :
          items[k].priorityKey = Inf <=> (policy = "GDSF" /\ items[k].size = 0)

\* C38 -- tie-independence of the big-value scenario: after the
\* 20 Sets of the keys 0..9 the age is 10 and "a" is present, and after the
\* admissions of "x" and "y" the key "a" is absent and Size is 3 or 4,
\* whichever tied member each eviction took.
BigValueTieIndependent ==
    /\ Made = 34 => (age = 10 * Unit /\ "a" \in DOMAIN items)
    /\ Made = 38 => ("a" \notin DOMAIN items /\ currSize \in {3, 4})

\* What every choice of victims has in common: after the 20 Sets the age is 10 and "a" is present with
\* the keys "8" and "9" in one bucket, whichever tied member each eviction
\* took; after the admissions of "x" and "y" either "a" is absent and Size
\* is 3 or 4, or the two evictions took "8" and "9" and "a" is still present,
\* alone in the front bucket, with Size 10; after one more admission "a" is
\* absent in every case.
BigValueOutcomes ==
    /\ Made = 34 =>
          /\ age = 10 * Unit
          /\ DOMAIN items = {"a", "8", "9"}
          /\ Front(freqs) = {"a", "8", "9"}
    /\ Made = 38 =>
          \/ "a" \notin DOMAIN items /\ currSize \in {3, 4}
          \/ /\ DOMAIN items = {"a", "x", "y"}
             /\ Front(freqs) = {"a"}
             /\ currSize = 10
             /\ age = 11 * Unit
    /\ Made \in 41..44 => ("a" \notin DOMAIN items /\ currSize \in 3..5)

\* The choice that keeps the big value: "x" and "y" have been admitted, each evicted a size-1 item
\* tied with "a", and "a" is still in the cache.
BigValueWitness ==
    /\ Made = 38
    /\ last.op = "Set"
    /\ last.key = "y"
    /\ Len(last.evictions) = 1
    /\ "a" \in DOMAIN items
    /\ currSize = 10

\* C36 -- lock release on every exit path: a goroutine that is in no method
\* of the Cache holds the lock in neither mode, also after the panic of a
\* notifier has left Set, Remove or Purge, so that the other goroutines can
\* still acquire it.
LockReleasedOnExit ==
    \A g \in Goroutines :
        calls[g].pc = "idle" => (lock.writer # g /\ g \notin lock.readers)

\* The exits that do release the lock: the normal return of every method,
\* and the panic that leaves ContainsOrSet or PeekOrSet.
LockReleasedWhereDeferred ==
    [][\A g \in Goroutines :
          (calls[g].pc # "idle" /\ calls'[g].pc = "idle"
             /\ (calls[g].pc = "done" \/ deferred(calls[g].op)))
          => (lock'.writer # g /\ g \notin lock'.readers)]_vars

\* a panic has left a method that defers nothing, and the lock is still held
LockLeftHeld ==
    \E g \in Goroutines : calls[g].pc = "idle" /\ lock.writer = g

\* the engine calls during which the notifier can run
Notifying == {"Set", "ContainsOrSet", "PeekOrSet", "Remove", "Purge"}

\* C35 -- the callback runs under the exclusive lock: whenever the engine
\* call of a goroutine fires the notifier, that goroutine holds the lock
\* exclusively, in one of Set, ContainsOrSet, PeekOrSet, Remove and Purge,
\* and still holds it afterwards; once a notifier has called a method of the
\* Cache nothing moves any more: its call never gets the lock, the
\* operation that fired it never returns, and no other goroutine enters a
\* method.  The engine calls the notifier all the same.
CallbackUnderLock ==
    /\ [][\A g \in Goroutines :
            (calls[g].pc \in {"locked", "checked"}
               /\ calls'[g].pc # calls[g].pc
               /\ last'.fired # <<>>)
            => /\ lock = [writer |-> g, readers |-> {}]
               /\ lock' = lock
               /\ calls[g].op \in Notifying]_vars
    /\ [][\A g \in Goroutines : calls[g].pc # "callback"]_vars
    /\ [](\A g \in Goroutines : calls[g].pc # "nested")

\* C35 witness: the notifier fired by the Set of a goroutine has called a
\* method of the Cache while that goroutine holds the lock exclusively
CallbackUnderLockWitness ==
    \E g \in Goroutines :
        /\ calls[g].pc = "callback"
        /\ calls[g].op = "Set"
        /\ lock.writer = g
        /\ last.fired # <<>>
        /\ last.fired[Len(last.fired)].key \in reenters

\* the goroutines that hold the lock, in either mode
Holders == (IF lock.writer = Nil THEN {} ELSE {lock.writer}) \cup lock.readers

\* C37 -- deadlock freedom and completion, with a notifier that returns and
\* does not call the Cache: a goroutine inside a method always has a next
\* step, and a goroutine that waits for the lock can take it or waits for a
\* holder that has a next step; under fair scheduling every call of a
\* method eventually returns; and the lock is free whenever no goroutine
\* is inside a method.
OperationsComplete ==
    /\ [](\A g \in Goroutines :
            /\ calls[g].pc \in {"locked", "checked", "done"}
                  => (g \in Holders /\ ENABLED Proceed(g))
            /\ calls[g].pc = "waiting"
                  => \/ ENABLED Enter(g)
                     \/ \E h \in Holders \ {g} : ENABLED Proceed(h))
    /\ \A g \in Goroutines : calls[g].pc # "idle" ~> calls[g].pc = "idle"
    /\ []((\A g \in Goroutines : calls[g].pc \in {"idle", "waiting"})
             => lock = Unlocked)

\* C37 witness: a goroutine waits for the write lock while the other one is
\* in the Set that evicts an item and fires the notifier
OperationsCompleteWitness ==
    \E g, h \in Goroutines :
        /\ calls[g].pc = "waiting"
        /\ calls[g].op = "Lock"
        /\ calls[h].pc = "done"
        /\ calls[h].op = "Set"
        /\ lock.writer = h
        /\ last.fired # <<>>

====
